---- MODULE Spec2Model ----
(***************************************************************************)
(* Model of the camera-coverage decision procedure of                      *)
(* src/unnamed/part_000: canCoverRequirements and canCoverDistanceRange.   *)
(*                                                                         *)
(* Distances and light levels are numbers in the source.  The model draws  *)
(* them from the integers 0..Max*; the only non-integer value the code     *)
(* computes is midpointLight = (lowerLight + upperLight) / 2, which is     *)
(* kept exactly as the doubled value lowerLight + upperLight and compared  *)
(* against doubled endpoints.  Points of the real line are represented on  *)
(* the same doubled grid (integers and half-integers): with integer        *)
(* endpoints, every real point behaves like one of the grid.               *)
(*                                                                         *)
(* The id field of HardwareCamera is read by neither function and is left  *)
(* out of the camera record.                                               *)
(***************************************************************************)
EXTENDS Integers, Sequences, FiniteSets

VARIABLES
    requirements,           \* SoftwareCameraRequirements passed to the call
    hardwareCameras,        \* HardwareCamera[] passed to the call
    call,                   \* which function was called: "none" before the call
    status,                 \* "pending" before the call, "returned" after it
    result,                 \* the boolean the call returned
    sortedLightBoundaries,  \* canCoverRequirements: the boundary array, <<>> if never built
    segmentsChecked         \* canCoverRequirements: number of loop iterations run

vars == <<requirements, hardwareCameras, call, status, result,
          sortedLightBoundaries, segmentsChecked>>

-----------------------------------------------------------------------------
(* Bounds of the model *)

\* Spec: largest light level, largest distance, longest camera list
MaxLightLevel == 3
MaxDistance == 2
MaxCameras == 2

\* SpecDistance: largest distance, longest camera list
MaxSweepDistance == 2
MaxSweepCameras == 3

\* SpecRaw (inputs that may break lo <= hi): largest value, longest camera list
MaxRawValue == 1
MaxRawCameras == 2

-----------------------------------------------------------------------------
(* Inputs *)

\* interface HardwareCamera, with distances in D and light levels in L
Cameras(D, L, wellFormed) ==
    { c \in [minDistance : D, maxDistance : D, minLightLevel : L, maxLightLevel : L] :
        wellFormed => (c.minDistance <= c.maxDistance /\ c.minLightLevel <= c.maxLightLevel) }

\* interface SoftwareCameraRequirements
Requirements(D, L, wellFormed) ==
    { r \in [minDistance : D, maxDistance : D, minLightLevel : L, maxLightLevel : L] :
        wellFormed => (r.minDistance <= r.maxDistance /\ r.minLightLevel <= r.maxLightLevel) }

Range(s) == { s[i] : i \in 1..Len(s) }

-----------------------------------------------------------------------------
(* canCoverDistanceRange *)

\* the comparator (a, b) => a.minDistance - b.minDistance: a goes first when negative
DescendingCompare(a, b) == b.minDistance - a.minDistance
compareMinDistance(a, b) == a.minDistance - b.minDistance

\* Array.prototype.sort is stable: an element is placed after every element
\* the comparator does not order after it.
RECURSIVE InsertSorted(_, _)
InsertSorted(c, s) ==
    IF s = <<>> THEN <<c>>
    ELSE IF compareMinDistance(c, Head(s)) < 0 THEN <<c>> \o s
    ELSE <<Head(s)>> \o InsertSorted(c, Tail(s))

RECURSIVE StableSort(_)
StableSort(s) ==
    IF s = <<>> THEN <<>>
    ELSE InsertSorted(s[Len(s)], StableSort(SubSeq(s, 1, Len(s) - 1)))

\* const sortedCameras = [...cameras].sort(...)
UnsortedCameras(cameras) == cameras
sortedCameras(cameras) == StableSort(cameras)

\* if (camera.minDistance > coveredUpTo) return false
AdjacentIsNoGap(camera, coveredUpTo) == camera.minDistance > coveredUpTo + 1
isGap(camera, coveredUpTo) == camera.minDistance > coveredUpTo

\* if (camera.maxDistance > coveredUpTo) coveredUpTo = camera.maxDistance
extend(camera, coveredUpTo) ==
    IF camera.maxDistance > coveredUpTo THEN camera.maxDistance ELSE coveredUpTo

\* the return after the loop: the range was not reached
SelfCoverage(coveredUpTo, maxDistance) == coveredUpTo >= maxDistance
loopExhausted(coveredUpTo, maxDistance) == FALSE

\* the for loop over sortedCameras, from its i-th element on
RECURSIVE sweep(_, _, _, _)
sweep(sorted, i, coveredUpTo, maxDistance) ==
    IF i > Len(sorted) THEN loopExhausted(coveredUpTo, maxDistance)
    ELSE IF isGap(sorted[i], coveredUpTo) THEN FALSE
    ELSE IF extend(sorted[i], coveredUpTo) >= maxDistance THEN TRUE
    ELSE sweep(sorted, i + 1, extend(sorted[i], coveredUpTo), maxDistance)

canCoverDistanceRange(minDistance, maxDistance, cameras) ==
    sweep(sortedCameras(cameras), 1, minDistance, maxDistance)

-----------------------------------------------------------------------------
(* canCoverRequirements *)

\* the filter predicate of relevantCameras
isRelevant(camera, req) ==
    ~(camera.maxLightLevel < req.minLightLevel \/ camera.minLightLevel > req.maxLightLevel)

relevantCameras(req, cameras) == SelectSeq(cameras, LAMBDA camera : isRelevant(camera, req))

\* if (relevantCameras.length === 0) return false
NeverReturnsEarly(relevant) == FALSE
noRelevantCameras(relevant) == Len(relevant) = 0

\* the two guarded lightBoundaries.add calls of the forEach
OnlyMinBoundaries(req, camera) ==
    IF camera.minLightLevel > req.minLightLevel /\ camera.minLightLevel < req.maxLightLevel
    THEN {camera.minLightLevel} ELSE {}
cameraBoundaries(req, camera) ==
    (IF camera.minLightLevel > req.minLightLevel /\ camera.minLightLevel < req.maxLightLevel
     THEN {camera.minLightLevel} ELSE {})
    \cup
    (IF camera.maxLightLevel > req.minLightLevel /\ camera.maxLightLevel < req.maxLightLevel
     THEN {camera.maxLightLevel} ELSE {})

\* const lightBoundaries = new Set<number>(), after all the adds
lightBoundaries(req, relevant) ==
    {req.minLightLevel, req.maxLightLevel}
    \cup UNION { cameraBoundaries(req, camera) : camera \in Range(relevant) }

\* Array.from(values).sort((a, b) => a - b)
RECURSIVE sortAscending(_)
sortAscending(values) ==
    IF values = {} THEN <<>>
    ELSE LET least == CHOOSE a \in values : \A b \in values : a - b <= 0
         IN  <<least>> \o sortAscending(values \ {least})

\* Array.from(lightBoundaries).sort(...); KeepDuplicates is the same array
\* built from a list of the two requirement bounds instead of a Set
KeepDuplicates(req, relevant) ==
    IF req.minLightLevel = req.maxLightLevel
    THEN <<req.minLightLevel, req.maxLightLevel>>
    ELSE sortAscending(lightBoundaries(req, relevant))
boundaryArray(req, relevant) == sortAscending(lightBoundaries(req, relevant))

\* camera.minLightLevel <= midpointLight && camera.maxLightLevel >= midpointLight,
\* with midpointLight = (lowerLight + upperLight) / 2 kept doubled
worksAtMidpoint(camera, lowerLight, upperLight) ==
    /\ 2 * camera.minLightLevel <= lowerLight + upperLight
    /\ 2 * camera.maxLightLevel >= lowerLight + upperLight

camerasForLightLevel(relevant, lowerLight, upperLight) ==
    SelectSeq(relevant, LAMBDA camera : worksAtMidpoint(camera, lowerLight, upperLight))

\* the for loop over the segments, from index i on (1-based); returns the
\* boolean the function returns and the number of iterations that ran
RECURSIVE segmentLoop(_, _, _, _)
segmentLoop(req, relevant, boundaries, i) ==
    IF ~(i < Len(boundaries)) THEN [result |-> TRUE, iterations |-> i - 1]
    ELSE IF ~canCoverDistanceRange(req.minDistance, req.maxDistance,
                camerasForLightLevel(relevant, boundaries[i], boundaries[i + 1]))
         THEN [result |-> FALSE, iterations |-> i]
         ELSE segmentLoop(req, relevant, boundaries, i + 1)

\* one run of canCoverRequirements: what it returns and what it computed
runCanCoverRequirements(req, cameras) ==
    LET relevant == relevantCameras(req, cameras) IN
    IF noRelevantCameras(relevant)
    THEN [result |-> FALSE, boundaries |-> <<>>, iterations |-> 0]
    ELSE LET boundaries == boundaryArray(req, relevant)
             loop == segmentLoop(req, relevant, boundaries, 1)
         IN  [result |-> loop.result, boundaries |-> boundaries,
              iterations |-> loop.iterations]

canCoverRequirements(req, cameras) == runCanCoverRequirements(req, cameras).result

-----------------------------------------------------------------------------
(* The calls *)

\* the arguments of a call: a requirement of reqs and an array of at most n cameras of cams
InitWith(reqs, cams, n) ==
    /\ requirements \in reqs
    /\ \E k \in 0..n : hardwareCameras \in [1..k -> cams]
    /\ call = "none"
    /\ status = "pending"
    /\ result = FALSE
    /\ sortedLightBoundaries = <<>>
    /\ segmentsChecked = 0

\* canCoverRequirements(requirements, hardwareCameras) runs to its return
CallCanCoverRequirements ==
    /\ status = "pending"
    /\ LET run == runCanCoverRequirements(requirements, hardwareCameras) IN
        /\ result' = run.result
        /\ sortedLightBoundaries' = run.boundaries
        /\ segmentsChecked' = run.iterations
    /\ call' = "canCoverRequirements"
    /\ status' = "returned"
    /\ UNCHANGED <<requirements, hardwareCameras>>

\* canCoverDistanceRange(minDistance, maxDistance, hardwareCameras) runs to its return
CallCanCoverDistanceRange ==
    /\ status = "pending"
    /\ result' = canCoverDistanceRange(requirements.minDistance,
                                       requirements.maxDistance, hardwareCameras)
    /\ call' = "canCoverDistanceRange"
    /\ status' = "returned"
    /\ UNCHANGED <<requirements, hardwareCameras, sortedLightBoundaries, segmentsChecked>>

\* Spec: well-formed requirements and cameras on both axes, either function
Init ==
    InitWith(Requirements(0..MaxDistance, 0..MaxLightLevel, TRUE),
             Cameras(0..MaxDistance, 0..MaxLightLevel, TRUE), MaxCameras)
Next == CallCanCoverRequirements \/ CallCanCoverDistanceRange
Spec == Init /\ [][Next]_vars

\* SpecDistance: canCoverDistanceRange alone, on longer lists; the light
\* fields, which it never reads, are all the same
InitDistance ==
    InitWith(Requirements(0..MaxSweepDistance, {0}, TRUE),
             Cameras(0..MaxSweepDistance, {0}, TRUE), MaxSweepCameras)
NextDistance == CallCanCoverDistanceRange
SpecDistance == InitDistance /\ [][NextDistance]_vars

\* SpecRaw: the callers' values as they come, lo > hi included
InitRaw ==
    InitWith(Requirements(0..MaxRawValue, 0..MaxRawValue, FALSE),
             Cameras(0..MaxRawValue, 0..MaxRawValue, FALSE), MaxRawCameras)
NextRaw == CallCanCoverRequirements \/ CallCanCoverDistanceRange
SpecRaw == InitRaw /\ [][NextRaw]_vars

-----------------------------------------------------------------------------
(* Vocabulary of the properties *)

Returned(fn) == status = "returned" /\ call = fn

\* a point of the doubled grid lies in the camera's distance / light interval
DistanceContains2(camera, d2) == 2 * camera.minDistance <= d2 /\ d2 <= 2 * camera.maxDistance
LightContains2(camera, l2) == 2 * camera.minLightLevel <= l2 /\ l2 <= 2 * camera.maxLightLevel

\* every point of [minDistance, maxDistance] lies in some camera's distance interval
TargetCovered ==
    \A d2 \in (2 * requirements.minDistance)..(2 * requirements.maxDistance) :
        \E camera \in Range(hardwareCameras) : DistanceContains2(camera, d2)

\* every point of the requirement rectangle lies in some camera's rectangle
RectangleCovered ==
    \A l2 \in (2 * requirements.minLightLevel)..(2 * requirements.maxLightLevel) :
        \A d2 \in (2 * requirements.minDistance)..(2 * requirements.maxDistance) :
            \E camera \in Range(hardwareCameras) :
                LightContains2(camera, l2) /\ DistanceContains2(camera, d2)

\* some point strictly inside the target lies in no camera's distance interval
GapInsideTarget ==
    \E d2 \in (2 * requirements.minDistance + 1)..(2 * requirements.maxDistance - 1) :
        \A camera \in Range(hardwareCameras) : ~DistanceContains2(camera, d2)

Permutations(n) == { p \in [1..n -> 1..n] : \A i, j \in 1..n : p[i] = p[j] => i = j }
Permuted(s, p) == [i \in 1..Len(s) |-> s[p[i]]]

\* the function the state's call ran, applied to another camera list
Recompute(cameras) ==
    IF call = "canCoverRequirements"
    THEN canCoverRequirements(requirements, cameras)
    ELSE canCoverDistanceRange(requirements.minDistance, requirements.maxDistance, cameras)

Malformed(x) == x.minDistance > x.maxDistance \/ x.minLightLevel > x.maxLightLevel
MalformedInput ==
    Malformed(requirements) \/ \E camera \in Range(hardwareCameras) : Malformed(camera)

\* no camera's light interval meets the requirement's
NoLightOverlap ==
    \A camera \in Range(hardwareCameras) :
        \/ camera.maxLightLevel < requirements.minLightLevel
        \/ camera.minLightLevel > requirements.maxLightLevel

-----------------------------------------------------------------------------
(* Properties *)

\* C1: for well-formed inputs canCoverRequirements returns true if and only
\* if every point of the requirement rectangle lies in some camera's
\* rectangle.  (Stated as claimed; the code returns true on uncovered
\* rectangles.)
C1_TrueIffRectangleCovered ==
    Returned("canCoverRequirements") => (result <=> RectangleCovered)

\* C2: for every target with lo <= hi, zero-width targets included,
\* canCoverDistanceRange returns true if and only if every point of the
\* target lies in some camera's distance interval.  (Stated as claimed; the
\* code returns true on an uncovered zero-width target.)
C2_TrueIffTargetCovered ==
    Returned("canCoverDistanceRange") => (result <=> TargetCovered)

\* C3: if some point strictly between the target's ends lies in no camera's
\* distance interval, canCoverDistanceRange returns false, whatever the
\* other cameras and their order.
C3_GapGivesFalse ==
    (Returned("canCoverDistanceRange") /\ GapInsideTarget) => result = FALSE

\* a gap between a camera that starts the target and one that ends it, with a
\* third camera present and the list not in ascending order
C3_Witness ==
    /\ Returned("canCoverDistanceRange") /\ GapInsideTarget
    /\ Len(hardwareCameras) = 3
    /\ Cardinality(Range(hardwareCameras)) = 3
    /\ hardwareCameras[1].minDistance > hardwareCameras[2].minDistance
    /\ \E camera \in Range(hardwareCameras) :
          DistanceContains2(camera, 2 * requirements.minDistance)
    /\ \E camera \in Range(hardwareCameras) :
          DistanceContains2(camera, 2 * requirements.maxDistance)

\* C4: a malformed interval (lo > hi) in the requirement or a camera makes
\* either function fail with InvalidInterval; it never returns a boolean.
\* (Stated as claimed; the code validates nothing and returns.)
C4_MalformedNeverReturns ==
    MalformedInput => status # "returned"

\* C5: re-ordering the camera list never changes the result of either
\* function: every permutation of the list gives the boolean that was
\* returned.
C5_OrderIndependent ==
    status = "returned" =>
        \A p \in Permutations(Len(hardwareCameras)) :
            Recompute(Permuted(hardwareCameras, p)) = result

\* two different cameras with the same minDistance, given farthest-reaching last
C5_Witness ==
    /\ Returned("canCoverRequirements") /\ result = TRUE
    /\ Len(hardwareCameras) = 2
    /\ hardwareCameras[1].minDistance = hardwareCameras[2].minDistance
    /\ hardwareCameras[1].maxDistance < hardwareCameras[2].maxDistance
    /\ Len(sortedLightBoundaries) >= 3

\* the wider intervals of a camera: lo not larger, hi not smaller
Widenings(camera) ==
    { [camera EXCEPT !.minDistance = lo, !.maxDistance = hi] :
        lo \in (0 - 1)..camera.minDistance,
        hi \in camera.maxDistance..(MaxSweepDistance + 1) }

Without(s, i) == SubSeq(s, 1, i - 1) \o SubSeq(s, i + 1, Len(s))

\* C6: for a fixed target, a true result stays true when any camera's
\* distance interval is replaced by a wider one, and a false result stays
\* false when any one camera is removed.
C6_Monotone ==
    Returned("canCoverDistanceRange") =>
        \A i \in 1..Len(hardwareCameras) :
            /\ result = TRUE =>
                 \A wider \in Widenings(hardwareCameras[i]) :
                    Recompute([hardwareCameras EXCEPT ![i] = wider]) = TRUE
            /\ result = FALSE => Recompute(Without(hardwareCameras, i)) = FALSE

\* a covered target whose cameras can still be widened
C6_WitnessTrue ==
    /\ Returned("canCoverDistanceRange") /\ result = TRUE
    /\ Len(hardwareCameras) = 3
    /\ requirements.minDistance < requirements.maxDistance
    /\ \A camera \in Range(hardwareCameras) :
          camera.minDistance > requirements.minDistance
          \/ camera.maxDistance < requirements.maxDistance

\* C7: if no camera's light interval meets the requirement's (the empty list
\* included), canCoverRequirements returns false before any boundary or
\* segment is computed.
C7_NoLightOverlapGivesFalse ==
    (Returned("canCoverRequirements") /\ NoLightOverlap) =>
        /\ result = FALSE
        /\ sortedLightBoundaries = <<>>
        /\ segmentsChecked = 0

\* cameras that would cover the distance range, all outside the light range
C7_Witness ==
    /\ Returned("canCoverRequirements") /\ NoLightOverlap
    /\ hardwareCameras # <<>>
    /\ TargetCovered

\* C8: with an empty camera list canCoverDistanceRange returns false for
\* every target, a zero-width one included.
C8_EmptyGivesFalse ==
    (Returned("canCoverDistanceRange") /\ hardwareCameras = <<>>) => result = FALSE

C8_Witness ==
    /\ Returned("canCoverDistanceRange") /\ hardwareCameras = <<>>
    /\ requirements.minDistance = requirements.maxDistance

ActiveAt2(l2) == { camera \in Range(hardwareCameras) : LightContains2(camera, l2) }

\* the cameras the loop selects at the midpoint of the i-th segment
SelectedAtMidpoint(i) ==
    Range(camerasForLightLevel(relevantCameras(requirements, hardwareCameras),
                               sortedLightBoundaries[i], sortedLightBoundaries[i + 1]))

\* C10: for every pair of adjacent boundaries, the cameras selected at the
\* midpoint are exactly the cameras whose light interval contains l, for
\* every light value l strictly between the two boundaries.
C10_ActiveSetConstantInSegment ==
    Returned("canCoverRequirements") =>
        \A i \in 1..(Len(sortedLightBoundaries) - 1) :
            \A l2 \in (2 * sortedLightBoundaries[i] + 1)..(2 * sortedLightBoundaries[i + 1] - 1) :
                ActiveAt2(l2) = SelectedAtMidpoint(i)

\* three segments with different active sets, one of them more than one unit wide
C10_Witness ==
    /\ Returned("canCoverRequirements")
    /\ Len(sortedLightBoundaries) >= 3
    /\ SelectedAtMidpoint(1) # SelectedAtMidpoint(2)
    /\ \E i \in 1..(Len(sortedLightBoundaries) - 1) :
          sortedLightBoundaries[i + 1] - sortedLightBoundaries[i] >= 2

====
